---- MODULE Spec2Model ----
(***************************************************************************)
(* H100 BLE communicator (src/App.tsx): the saved-data fetch engine of the *)
(* App component, i.e. the notification-frame classifier, the 43-byte      *)
(* record decoder and the pagination loop, together with the connection    *)
(* lifecycle that registers and resets them.                               *)
(*                                                                         *)
(* React state (useState) and refs (useRef) are the variables.  Every      *)
(* event handler is one action.  Conventions:                              *)
(*  - a frame is the sequence of its bytes (1-based here, 0-based in the   *)
(*    DataView: DataView offset k is bytes[k+1]);                          *)
(*  - a float32 field is kept as its 32-bit little-endian bit pattern;     *)
(*  - a record's display-only id (Date.now() + i) is not modelled, and its *)
(*    timestamp is kept as the six numbers handed to the Date constructor; *)
(*  - a handler that awaits a write ends its step at the await with the    *)
(*    write in pending; the continuation after the await is a step of its  *)
(*    own, taken when the platform settles the write, and other events can *)
(*    come in between; handleScanAndConnect is one step per platform call  *)
(*    it awaits, and several calls of it can be under way;                 *)
(*  - the state setters and the refs act at once; what is on screen, and   *)
(*    with it the buttons that can be clicked and the closures they call,  *)
(*    is the state as rendered last (screen), which may be behind the      *)
(*    state: a render is a step of its own (Render), its passive effects   *)
(*    another one after it (PassiveEffects), and events of the platform    *)
(*    and clicks on the screen as it is may come before either; a click    *)
(*    is a discrete event: the render of the state it leaves and the       *)
(*    effects of that render are part of the click; the effect on [device] *)
(*    is cleaned up when a render whose effects run shows another device   *)
(*    than the render before it, so a device that was set and replaced     *)
(*    between two renders is never cleaned up;                             *)
(*  - sent holds the commands handed to the transport, accepted or not.    *)
(***************************************************************************)
EXTENDS Integers, Sequences, FiniteSets, TLC

\* ------------------------------------------------------------------------
\* Bounds of the model
\* ------------------------------------------------------------------------
MaxInputs == 3

\* ------------------------------------------------------------------------
\* Protocol constants
\* ------------------------------------------------------------------------
RECORD_SIZE == 43
FULL_PAGE == 50
SOM == 174
SAVE_DAT_REP == 218
SAVE_DAT_REQ == <<174, 90, 0, 0>>
SAVE_DAT_NEXT_REQ == <<174, 91, 0, 0>>
YEAR_BASE == 2000

\* ConnectionStatus enum
DISCONNECTED == "DISCONNECTED"
SCANNING == "SCANNING"
CONNECTING == "CONNECTING"
CONNECTED == "CONNECTED"
ERROR == "ERROR"

NULL == "null"

HexDigits == <<"0", "1", "2", "3", "4", "5", "6", "7",
               "8", "9", "A", "B", "C", "D", "E", "F">>

\* ------------------------------------------------------------------------
\* Frames offered by the device: synthetic frames laid out per the wire
\* format.  A descriptor is either raw bytes, or a data page
\*   AE DA <len: u16 LE> <slots * 43 bytes> <pad bytes>
\* whose slot zeroAt (0-based, -1 for none) carries category 0.
\* ------------------------------------------------------------------------
U16LE(n) == <<n % 256, (n \div 256) % 256>>

F32LE(bits) ==
    <<bits % 256, (bits \div 256) % 256, (bits \div 65536) % 256,
      (bits \div 16777216) % 256>>
FILL == <<170, 170, 170, 170>>

\* Field values of the synthetic record in slot i of the page tagged t.
SlotCategory(t, i) == 1 + ((t + i) % 5)
SlotSecond(i) == i % 60
SlotTreeNo(t, i) == 256 * t + i + 1
SlotDefect(t, i) == 65535 - (257 * i + t)
SlotTimestamp(t, i) ==
    <<2000 + ((24 + i + 40 * t) % 256), 1 + (i % 12), 1 + ((i + t) % 28),
      i % 24, (7 * i) % 60, SlotSecond(i)>>
\* float fields as bit patterns: 21.5 and 1.0 .. 5.0, low mantissa bits varied
SlotTemperature(t, i) == 1101791232 + 256 * t + i
SlotResult(t, i, j) ==
    <<1065353216, 1073741824, 1077936128, 1082130432, 1084227584>>[j]
    + 4096 * i + t

\* The record the decoder is to produce for slot i of the page tagged t.
ExpectedRecord(t, i) ==
    [ timestamp   |-> SlotTimestamp(t, i),
      fruitIndex  |-> SlotCategory(t, i),
      temperature |-> SlotTemperature(t, i),
      treeNo      |-> SlotTreeNo(t, i),
      defectCode  |-> SlotDefect(t, i),
      calcResult  |-> [j \in 1..5 |-> SlotResult(t, i, j)] ]

\* A record laid out in a 43-byte slot: category, year - 2000, month, day,
\* hour, minute, second, temperature f32 at 7, 4 bytes unused, treeNo u16
\* at 15, 4 bytes unused, defectCode u16 at 21, five f32 from 23.
EncodeSlot(r) ==
    <<r.fruitIndex, r.timestamp[1] - 2000, r.timestamp[2], r.timestamp[3],
      r.timestamp[4], r.timestamp[5], r.timestamp[6]>>
    \o F32LE(r.temperature) \o FILL
    \o U16LE(r.treeNo) \o FILL
    \o U16LE(r.defectCode)
    \o F32LE(r.calcResult[1]) \o F32LE(r.calcResult[2])
    \o F32LE(r.calcResult[3]) \o F32LE(r.calcResult[4])
    \o F32LE(r.calcResult[5])

SlotBytes(cat, t, i) ==
    EncodeSlot([ExpectedRecord(t, i) EXCEPT !.fruitIndex = cat])

\* The bytes of slots 0..n-1, slot after slot.
SlotsBytes(t, zeroAt, n) ==
    [k \in 1..(n * RECORD_SIZE) |->
        LET i == (k - 1) \div RECORD_SIZE IN
        SlotBytes(IF i = zeroAt THEN 0 ELSE SlotCategory(t, i), t, i)
            [((k - 1) % RECORD_SIZE) + 1]]

Page(len, slots, zeroAt, tag, pad) ==
    [raw |-> <<>>, len |-> len, slots |-> slots, zeroAt |-> zeroAt,
     tag |-> tag, pad |-> pad]
Raw(bytes) ==
    [raw |-> bytes, len |-> 0, slots |-> 0, zeroAt |-> -1, tag |-> 0, pad |-> 0]

FrameBytes(d) ==
    IF d.raw # <<>> THEN d.raw
    ELSE <<SOM, SAVE_DAT_REP>> \o U16LE(d.len)
         \o SlotsBytes(d.tag, d.zeroAt, d.slots)
         \o [k \in 1..d.pad |-> 85]

Frames ==
    << Raw(<<65>>),                                   \* 1: one byte
       Raw(<<79, 75>>),                               \* 2: text "OK"
       Raw(<<SOM, SAVE_DAT_REP>>),                    \* 3: header only, 2 bytes
       Raw(<<SOM, SAVE_DAT_REP, 43>>),                \* 4: header cut at 3 bytes
       Page(0, 0, -1, 0, 0),                          \* 5: empty page
       Page(0, 0, -1, 0, 3),                          \* 6: empty page, trailing bytes
       Page(RECORD_SIZE, 1, -1, 1, 0),                \* 7: one slot
       Page(RECORD_SIZE + 7, 1, -1, 2, 7),            \* 8: one slot and 7 bytes
       Page(FULL_PAGE * RECORD_SIZE, FULL_PAGE, -1, 3, 0),  \* 9: full page
       Page(FULL_PAGE * RECORD_SIZE, FULL_PAGE, -1, 4, 0),  \* 10: another full page
       Page(FULL_PAGE * RECORD_SIZE, FULL_PAGE, 2, 5, 0),   \* 11: sentinel in slot 2
       Page(FULL_PAGE * RECORD_SIZE, 1, 0, 6, 0),     \* 12: sentinel first, rest absent
       Page((FULL_PAGE + 1) * RECORD_SIZE, FULL_PAGE + 1, FULL_PAGE, 7, 0), \* 13: 51 slots, sentinel last
       Page(FULL_PAGE * RECORD_SIZE, 1, -1, 8, 0),    \* 14: declares 50 slots, holds 1
       Page(2 * RECORD_SIZE, 1, -1, 9, 20),           \* 15: second slot cut short
       Page((FULL_PAGE - 1) * RECORD_SIZE, FULL_PAGE - 1, -1, 10, 0), \* 16: 49 slots
       Page(10, 0, -1, 0, 10),                        \* 17: payload shorter than a slot
       Page(3 * RECORD_SIZE + 5, 3, -1, 11, 5),       \* 18: three slots and 5 bytes
       Page(0, 1, -1, 12, 0),                         \* 19: declares 0, a slot follows
       Raw(<<SOM, 91, 0, 0>>),                        \* 20: marker, another opcode
       Raw(<<0, SAVE_DAT_REP, 43, 0, 1>>),            \* 21: opcode, no marker
       Raw(<<72, 195, 169>>),                         \* 22: text, a 2-byte sequence
       Raw(<<239, 187, 191, 65>>),                    \* 23: text after a byte order mark
       Raw(<<65, 226, 130>>),                         \* 24: text, a sequence cut short
       Raw(<<SOM, 217, 240, 159, 152, 128, 255>>)     \* 25: marker, 4-byte sequence, FF
    >>

FrameIds == 1..Len(Frames)
\* The frames the device sends in the session model: text, a header cut
\* short, an empty page, a short page, a full page, a page with a sentinel.
SessionFrameIds == {2, 3, 5, 7, 9, 11}
FrameData == [k \in FrameIds |-> FrameBytes(Frames[k])]

\* ------------------------------------------------------------------------
\* DataView accessors (a read outside the buffer throws RangeError)
\* ------------------------------------------------------------------------
InRange(bytes, off, width) == off + width <= Len(bytes)
GetUint8(bytes, off) == bytes[off + 1]
\* (mutant) getUint16 without its littleEndian argument
GetUint16BE(bytes, off) == 256 * bytes[off + 1] + bytes[off + 2]
GetUint16(bytes, off) == bytes[off + 1] + 256 * bytes[off + 2]
GetFloat32(bytes, off) ==
    bytes[off + 1] + 256 * bytes[off + 2] + 65536 * bytes[off + 3]
    + 16777216 * bytes[off + 4]

\* Array.from(bytes).map(b => b.toString(16).padStart(2,'0').toUpperCase())
Hex(b) == <<HexDigits[(b \div 16) + 1], HexDigits[(b % 16) + 1]>>
HexBytes(bytes) == [k \in 1..Len(bytes) |-> Hex(bytes[k])]

\* textDecoder.decode(value): the UTF-8 decoder of the Encoding standard,
\* errors replaced by U+FFFD, a leading byte order mark dropped.  The
\* decoder's state is the code point under construction, the continuation
\* bytes still needed and the bounds of the next byte.
REPLACEMENT == 65533
BOM == 65279

Utf8Start == [cp |-> 0, needed |-> 0, lower |-> 128, upper |-> 191]

RECURSIVE Utf8Decode(_, _, _)
Utf8Decode(bytes, k, st) ==
    IF k > Len(bytes)
    THEN IF st.needed > 0 THEN <<REPLACEMENT>> ELSE <<>>
    ELSE
    LET b == bytes[k] IN
    IF st.needed = 0
    THEN IF b <= 127
         THEN <<b>> \o Utf8Decode(bytes, k + 1, Utf8Start)
         ELSE IF b >= 194 /\ b <= 223
         THEN Utf8Decode(bytes, k + 1,
                  [Utf8Start EXCEPT !.cp = b % 32, !.needed = 1])
         ELSE IF b >= 224 /\ b <= 239
         THEN Utf8Decode(bytes, k + 1,
                  [cp |-> b % 16, needed |-> 2,
                   lower |-> IF b = 224 THEN 160 ELSE 128,
                   upper |-> IF b = 237 THEN 159 ELSE 191])
         ELSE IF b >= 240 /\ b <= 244
         THEN Utf8Decode(bytes, k + 1,
                  [cp |-> b % 8, needed |-> 3,
                   lower |-> IF b = 240 THEN 144 ELSE 128,
                   upper |-> IF b = 244 THEN 143 ELSE 191])
         ELSE <<REPLACEMENT>> \o Utf8Decode(bytes, k + 1, Utf8Start)
    ELSE IF b < st.lower \/ b > st.upper
         THEN \* the byte is put back and decoded again from the start state
              <<REPLACEMENT>> \o Utf8Decode(bytes, k, Utf8Start)
         ELSE LET cp == st.cp * 64 + (b % 64) IN
              IF st.needed = 1
              THEN <<cp>> \o Utf8Decode(bytes, k + 1, Utf8Start)
              ELSE Utf8Decode(bytes, k + 1,
                       [cp |-> cp, needed |-> st.needed - 1,
                        lower |-> 128, upper |-> 191])

TextDecode(bytes) ==
    LET text == Utf8Decode(bytes, 1, Utf8Start) IN
    IF Len(text) > 0 /\ text[1] = BOM THEN Tail(text) ELSE text

\* ------------------------------------------------------------------------
\* Record decoder: the body of the for loop of handleSaveDataResponse
\* ------------------------------------------------------------------------
SlotReadable(bytes, offset) ==
    /\ \A k \in 1..6 : InRange(bytes, offset + k, 1)
    /\ InRange(bytes, offset + 7, 4)
    /\ InRange(bytes, offset + 15, 2)
    /\ InRange(bytes, offset + 21, 2)
    /\ \A j \in 0..4 : InRange(bytes, offset + 23 + (j * 4), 4)

DecodeSlot(bytes, offset) ==
    [ timestamp   |-> << GetUint8(bytes, offset + 1) + YEAR_BASE,
                         GetUint8(bytes, offset + 2),
                         GetUint8(bytes, offset + 3),
                         GetUint8(bytes, offset + 4),
                         GetUint8(bytes, offset + 5),
                         GetUint8(bytes, offset + 6) >>,
      fruitIndex  |-> GetUint8(bytes, offset),
      temperature |-> GetFloat32(bytes, offset + 7),
      treeNo      |-> GetUint16(bytes, offset + 15),
      defectCode  |-> GetUint16(bytes, offset + 21),
      calcResult  |-> [j \in 1..5 |-> GetFloat32(bytes, offset + 23 + ((j - 1) * 4))] ]

\* The for loop of handleSaveDataResponse runs slot after slot and leaves at
\* the first slot that is a sentinel (break) or that a getter cannot read
\* (RangeError).  It is written here without recursion: the slot the loop
\* leaves at, then the records of the slots before it.
SlotIsSentinel(bytes, i) ==
    LET offset == 4 + i * RECORD_SIZE IN
    InRange(bytes, offset, 1) /\ GetUint8(bytes, offset) = 0

SlotThrows(bytes, i) ==
    LET offset == 4 + i * RECORD_SIZE IN
    \/ ~InRange(bytes, offset, 1)
    \/ GetUint8(bytes, offset) # 0 /\ ~SlotReadable(bytes, offset)

LoopExit(bytes, numRecords) ==
    LET stops == {i \in 0..(numRecords - 1) :
                    SlotIsSentinel(bytes, i) \/ SlotThrows(bytes, i)}
    IN  IF stops = {} THEN numRecords
        ELSE CHOOSE i \in stops : \A j \in stops : i <= j

DecodeLoop(bytes, numRecords) ==
    LET exit == LoopExit(bytes, numRecords) IN
    IF exit < numRecords /\ SlotThrows(bytes, exit)
    THEN [records |-> <<>>, isLastPacket |-> FALSE, threw |-> TRUE]
    ELSE [records |-> [i \in 1..exit |->
                         DecodeSlot(bytes, 4 + (i - 1) * RECORD_SIZE)],
          isLastPacket |-> exit < numRecords,
          threw |-> FALSE]

\* (mutant) the slot count rounded up
NumRecordsCeil(payloadLength) ==
    (payloadLength + RECORD_SIZE - 1) \div RECORD_SIZE

\* Math.floor(payloadLength / RECORD_SIZE)
NumRecords(payloadLength) == payloadLength \div RECORD_SIZE

\* The loop's result depends on the frame's bytes alone, and the frames
\* notified are those of FrameData: DecodeLoop is evaluated once for each
\* of them, at the slot count handleSaveDataResponse computes, and looked
\* up afterwards.
DecodedFrames ==
    [f \in FrameIds |->
       IF InRange(FrameData[f], 2, 2)
       THEN LET numRecords == NumRecords(GetUint16(FrameData[f], 2))
            IN  [n \in {numRecords} |-> DecodeLoop(FrameData[f], n)]
       ELSE [n \in {} |-> 0]]

Decoded(bytes, numRecords) ==
    LET fs == {f \in FrameIds : /\ FrameData[f] = bytes
                                /\ numRecords \in DOMAIN DecodedFrames[f]}
    IN  IF fs # {}
        THEN DecodedFrames[CHOOSE f \in fs : TRUE][numRecords]
        ELSE DecodeLoop(bytes, numRecords)

\* The getter calls of the loop body after the category byte, in the order
\* made: offset within the slot, width.
SlotFields ==
    << <<1, 1>>, <<2, 1>>, <<3, 1>>, <<4, 1>>, <<5, 1>>, <<6, 1>>,
       <<7, 4>>, <<15, 2>>, <<21, 2>>,
       <<23, 4>>, <<27, 4>>, <<31, 4>>, <<35, 4>>, <<39, 4>> >>

\* The byte indices the getters of slot i are called on: the category byte,
\* and for a slot that is no sentinel each field up to and including the
\* first one that throws.
SlotReads(bytes, i) ==
    LET offset == 4 + i * RECORD_SIZE
        made == {k \in 1..Len(SlotFields) :
                   \A j \in 1..(k - 1) :
                      InRange(bytes, offset + SlotFields[j][1],
                              SlotFields[j][2])}
    IN  {offset} \cup
        IF InRange(bytes, offset, 1) /\ GetUint8(bytes, offset) # 0
        THEN UNION { (offset + SlotFields[k][1])
                       .. (offset + SlotFields[k][1] + SlotFields[k][2] - 1) :
                     k \in made }
        ELSE {}

\* The byte indices handleNotifications and handleSaveDataResponse call the
\* getters on for a frame of 2 bytes or more that starts with AE DA.
PageReads(bytes) ==
    {0, 1, 2, 3} \cup
    IF ~InRange(bytes, 2, 2) \/ GetUint16(bytes, 2) = 0 THEN {}
    ELSE LET numRecords == NumRecords(GetUint16(bytes, 2))
             exit == LoopExit(bytes, numRecords)
             lastSlot == IF exit < numRecords THEN exit ELSE numRecords - 1
         IN  UNION { SlotReads(bytes, i) : i \in 0..lastSlot }

\* ------------------------------------------------------------------------
\* State
\* ------------------------------------------------------------------------
VARIABLES
    status,            \* useState<ConnectionStatus>
    device,            \* useState<BluetoothDevice | null>: the device, or 0
    receivedMessages,  \* useState<string[]>: the raw data log
    errorMessage,      \* useState<string | null>
    parsedData,        \* useState<SavedDataRecord[]>
    isFetchingData,    \* useState(false)
    txCharacteristicRef, \* useRef: the device whose TX characteristic is
                       \* held, or 0
    rxCharacteristicRef, \* useRef: likewise for RX
    handlers,          \* the handleScanAndConnect calls: where each one
                       \* waits and the selectedDevice it holds
    screen,            \* what the render committed last has put on
                       \* screen: the status, isFetchingData and device
                       \* it read
    effectDevice,      \* the device of the effect set up last, whose
                       \* cleanup runs with the effects of the next
                       \* render that shows another device, or 0
    bluetooth,         \* navigator.bluetooth is there
    gattConnected,     \* the devices whose gatt.connected is true
    discListener,      \* the devices onDisconnected is registered on
    listeners,         \* per device, the handleNotifications closures
                       \* registered on the RX characteristic of its
                       \* current GATT connection
    pending,           \* the writes awaited and not yet settled, in the
                       \* order made
    sent,              \* what the event handled last handed to the TX
                       \* characteristic to write, in order
    last,              \* the event handled last, and what it met
    nInputs            \* the connects, frames and typed messages
                       \* so far, for the bounds

vars == << status, device, receivedMessages, errorMessage, parsedData,
           isFetchingData, txCharacteristicRef, rxCharacteristicRef,
           handlers, screen, effectDevice, bluetooth, gattConnected,
           discListener, listeners, pending, sent, last, nInputs >>

\* the inputs so far: connects, frames notified and messages typed
Inputs == nInputs

\* op: the event; f: the frame notified (0 for none); dev: the device
\* the event is about (the one that notifies, disconnects, is written
\* to, or whose effect is cleaned up), or 0; n: the listeners
\* the frame was dispatched to, and for a click on "Get Saved Data" 1 if
\* the button was enabled and its handler ran; wasFetching, had: isFetchingData and the
\* number of records when the event arrived; threw: an exception left a
\* listener uncaught; writeOk: the event is the settling of a write, and
\* the write resolved.
Event(op, f, dev, n, threw, writeOk) ==
    [op |-> op, f |-> f, dev |-> dev, n |-> n,
     wasFetching |-> isFetchingData,
     had |-> Len(parsedData), threw |-> threw, writeOk |-> writeOk]

\* The part of the state the handlers update, as one value, so that a
\* handler is a function from it to it:
\*   pend  the writes the event made and awaits, threw  an exception
\*         left a listener uncaught.
App ==
    [ status |-> status, errorMessage |-> errorMessage,
      receivedMessages |-> receivedMessages, parsedData |-> parsedData,
      isFetchingData |-> isFetchingData, sent |-> <<>>,
      pend |-> <<>>, threw |-> FALSE ]

Log(s, entry) == [s EXCEPT !.receivedMessages = Append(@, entry)]

\* handleSendCommand up to its await
handleSendCommand(s, command, tx) ==
    IF ~tx
    THEN [s EXCEPT !.errorMessage = "TX characteristic not available.",
                   !.status = ERROR]
    ELSE [s EXCEPT !.sent = Append(@, command),
                   !.pend = Append(@, command)]

\* handleSendCommand after its await: the write resolved (ok) or rejected
SendCommandSettled(s, command, ok) ==
    IF ok
    THEN Log(s, <<"[CMD]", HexBytes(command)>>)
    ELSE [s EXCEPT !.errorMessage = "Failed to send command.",
                   !.status = ERROR]

\* handleSendText after its await of writeValue
SendTextSettled(s, message, ok) ==
    IF ok
    THEN Log(s, <<"[OUT]", message>>)
    ELSE [s EXCEPT !.errorMessage = "Failed to send message.",
                   !.status = ERROR]

\* pending with the writes of handleSendCommand the event made
AwaitCommands(s) ==
    pending \o [k \in 1..Len(s.pend) |-> [kind |-> "command",
                                          data |-> s.pend[k]]]

\* seq without its element k
Remove(seq, k) == SubSeq(seq, 1, k - 1) \o SubSeq(seq, k + 1, Len(seq))

\* setParsedData(prev => [...prev, ...newRecords])
AppendRecords(prev, newRecords) == prev \o newRecords

\* (mutant) the short-page rule left out
SentinelOnly(isLastPacket, numRecords) == isLastPacket

\* (mutant) the short-page rule with its limit off by one
ShortPageBelow49(isLastPacket, numRecords) ==
    isLastPacket \/ numRecords < FULL_PAGE - 1

\* (mutant) the sentinel rule left out
ShortPageOnly(isLastPacket, numRecords) == numRecords < FULL_PAGE

IsEndOfTransfer(isLastPacket, numRecords) ==
    isLastPacket \/ numRecords < FULL_PAGE

\* (mutant) the empty page without setIsFetchingData(false)
EmptyPageKeepsFetching(s) ==
    Log(s, <<"[INFO] Received empty data packet. Fetch complete.">>)

\* the branch taken when payloadLength === 0
EmptyPageReceived(s) ==
    [Log(s, <<"[INFO] Received empty data packet. Fetch complete.">>)
        EXCEPT !.isFetchingData = FALSE]

handleSaveDataResponse(s, bytes, tx) ==
    IF ~InRange(bytes, 2, 2) THEN [s EXCEPT !.threw = TRUE]
    ELSE
    LET payloadLength == GetUint16(bytes, 2) IN
    IF payloadLength = 0
    THEN EmptyPageReceived(s)
    ELSE
    LET numRecords == NumRecords(payloadLength)
        d == Decoded(bytes, numRecords)
        newRecords == d.records
        s1 == IF Len(newRecords) > 0
              THEN [s EXCEPT !.parsedData = AppendRecords(@, newRecords)]
              ELSE s
        s2 == Log(s1, <<"[INFO] Received", Len(newRecords), "data records.">>)
    IN  IF d.threw THEN [s EXCEPT !.threw = TRUE]
        ELSE IF IsEndOfTransfer(d.isLastPacket, numRecords)
        THEN [Log(s2, <<"[INFO] All data received.">>)
                 EXCEPT !.isFetchingData = FALSE]
        ELSE handleSendCommand(s2, SAVE_DAT_NEXT_REQ, tx)

IsSaveDataReply(bytes) ==
    GetUint8(bytes, 0) = SOM /\ GetUint8(bytes, 1) = SAVE_DAT_REP

\* bytes is value.buffer, the notified frame (event.target.value is set on
\* every characteristicvaluechanged event).
handleNotifications(s, bytes, tx) ==
    IF Len(bytes) < 2 THEN s
    ELSE IF IsSaveDataReply(bytes)
    THEN handleSaveDataResponse(s, bytes, tx)
    ELSE Log(s, <<"[IN]", HexBytes(bytes), TextDecode(bytes)>>)

\* The event target calls every registered listener in turn; an exception
\* thrown by one is reported and the next is still called.
RECURSIVE Dispatch(_, _, _, _)
Dispatch(s, bytes, tx, n) ==
    IF n = 0 THEN s
    ELSE Dispatch(handleNotifications(s, bytes, tx), bytes, tx, n - 1)

\* (mutant) the button without its disabled attribute
FetchButtonAlwaysEnabled(fetching) == TRUE

\* disabled={isFetchingData}
FetchButtonEnabled(fetching) == ~fetching

handleFetchSavedData(s, tx) ==
    handleSendCommand(
        Log([s EXCEPT !.parsedData = <<>>, !.isFetchingData = TRUE],
            <<"[INFO] Requesting saved data...">>),
        SAVE_DAT_REQ, tx)

\* ------------------------------------------------------------------------
\* The devices the chooser can return (its filters admit names that start
\* with H), and the errors the platform calls can reject with
\* ------------------------------------------------------------------------
NoDevice == 0
DeviceName ==
    << <<"H", "1", "0", "0">>,
       <<"H", "1", "2", "3", "4", "p">>,
       <<"H", "0", "0", "0", "1", "P">>,
       <<"H", "1", "2", "3", "4", "5">>,
       <<"H", "1">> >>
\* the names as the template literal of line 177 prints them
DeviceNameText == <<"H100", "H1234p", "H0001P", "H12345", "H1">>
ChooserDevices == 1..Len(DeviceName)
\* selectedDevice.gatt is there (it is missing on device 3)
HasGatt(d) == d # 3

\* c.toUpperCase(), for the characters of the names above
ToUpperCase(c) == IF c = "p" THEN "P" ELSE c

\* isH100 || isHxxxxP
NameMatches(name) ==
    \/ name = <<"H", "1", "0", "0">>
    \/ Len(name) >= 6 /\ name[1] = "H" /\ ToUpperCase(name[6]) = "P"

Devices == {d \in ChooserDevices : NameMatches(DeviceName[d])}

\* `Device '${deviceName}' does not match the required name pattern ...`
MismatchMessage(d) ==
    CASE DeviceNameText[d] = "H12345" ->
           "Device 'H12345' does not match the required name pattern (H100 or HxxxxP...)."
      [] DeviceNameText[d] = "H1" ->
           "Device 'H1' does not match the required name pattern (H100 or HxxxxP...)."

\* A rejection is an Error with a message, or a value that is no Error.
ErrorOf(message) == [isError |-> TRUE, message |-> message]
NotAnError == [isError |-> FALSE, message |-> ""]

UserCancelled == "User cancelled the requestDevice() chooser."
\* message.includes('User cancelled'), over the messages of the model
IncludesUserCancelled(message) == message = UserCancelled

\* requestDevice rejects, or the chosen device's name does not match
ScanErrors ==
    { ErrorOf(UserCancelled), ErrorOf("Bluetooth adapter not available."),
      NotAnError }
    \cup { ErrorOf(MismatchMessage(d)) : d \in ChooserDevices \ Devices }
\* a GATT call rejects
ConnectErrors ==
    { ErrorOf("GATT operation failed for unknown reason."), NotAnError }
\* a GATT call rejects because the connection went away under it
DisconnectedErrors ==
    { ErrorOf("GATT Server is disconnected.") }
NoGattError == ErrorOf("Could not connect to GATT server.")

\* the message the catch block of handleScanAndConnect computes
CatchMessage(error) ==
    IF error.isError
    THEN IF IncludesUserCancelled(error.message)
         THEN "Device selection cancelled."
         ELSE error.message
    ELSE "An unknown error occurred."

NoBluetoothMessage ==
    "Web Bluetooth API is not available on this browser. Please use Chrome on desktop or Android."

\* ------------------------------------------------------------------------
\* Initial state: the component as first rendered
\* ------------------------------------------------------------------------
Idle == [pc |-> "idle", dev |-> NoDevice]
HandlerIds == 1..MaxInputs

Init ==
    /\ status = DISCONNECTED
    /\ device = NoDevice
    /\ receivedMessages = <<>>
    /\ errorMessage = NULL
    /\ parsedData = <<>>
    /\ isFetchingData = FALSE
    /\ txCharacteristicRef = NoDevice
    /\ rxCharacteristicRef = NoDevice
    /\ handlers = [h \in HandlerIds |-> Idle]
    /\ screen = [status |-> DISCONNECTED, isFetchingData |-> FALSE,
                 device |-> NoDevice]
    /\ effectDevice = NoDevice
    /\ bluetooth \in BOOLEAN
    /\ gattConnected = {}
    /\ discListener = {}
    /\ listeners = [d \in Devices |-> 0]
    /\ pending = <<>>
    /\ sent = <<>>
    /\ last = [op |-> "init", f |-> 0, dev |-> NoDevice, n |-> 0,
               wasFetching |-> FALSE, had |-> 0,
               threw |-> FALSE, writeOk |-> FALSE]
    /\ nInputs = 0

\* The handlers' result written back to the state.
Commit(s) ==
    /\ status' = s.status
    /\ errorMessage' = s.errorMessage
    /\ receivedMessages' = s.receivedMessages
    /\ parsedData' = s.parsedData
    /\ isFetchingData' = s.isFetchingData
    /\ sent' = s.sent

resetState ==
    /\ status' = DISCONNECTED
    /\ device' = NoDevice
    /\ receivedMessages' = <<>>
    /\ parsedData' = <<>>
    /\ isFetchingData' = FALSE
    /\ txCharacteristicRef' = NoDevice
    /\ rxCharacteristicRef' = NoDevice

\* where a handleScanAndConnect call waits for a GATT call on its device
InFlight == {"connecting", "discovering", "starting"}

\* The handleScanAndConnect calls that wait in one of pcs on device d find
\* their platform call rejected.
Broken(d, pcs) ==
    [h \in HandlerIds |->
        IF handlers[h].dev = d /\ handlers[h].pc \in pcs
        THEN [handlers[h] EXCEPT !.pc = "broken"]
        ELSE handlers[h]]

\* The cleanup of the effect on [device], for every device of ds, over
\* the handleScanAndConnect calls hs, the connections gatt and the
\* listeners lis: removeEventListener, then device.gatt?.disconnect(),
\* which aborts the connects under way and ends the GATT connection, and
\* with it the characteristic objects and their listeners.
EffectCleanup(ds, hs, gatt, lis) ==
    /\ discListener' = discListener \ ds
    /\ gattConnected' = gatt \ ds
    /\ listeners' = [d \in Devices |-> IF d \in ds THEN 0 ELSE lis[d]]
    /\ handlers' = [h \in HandlerIds |->
                      IF hs[h].dev \in ds /\ HasGatt(hs[h].dev)
                         /\ hs[h].pc \in InFlight
                      THEN [hs[h] EXCEPT !.pc = "broken"]
                      ELSE hs[h]]

\* what a render reads of the state
Rendered(st, fetching, dev) ==
    [status |-> st, isFetchingData |-> fetching, device |-> dev]

\* the device whose cleanup the effects of the render on screen, which
\* have not run yet, will run: the one of the effect set up before, if the
\* screen shows another one
PendingCleanup ==
    IF effectDevice # screen.device /\ effectDevice # NoDevice
    THEN {effectDevice}
    ELSE {}

\* React renders the state after an event that is no click: the effects
\* of the render before run first if they have not yet, the screen shows
\* the state, and the effects of this render are left for later.
Render ==
    /\ screen # Rendered(status, isFetchingData, device)
    /\ EffectCleanup(PendingCleanup, handlers, gattConnected, listeners)
    /\ effectDevice' = screen.device
    /\ screen' = Rendered(status, isFetchingData, device)
    /\ last' = Event("render", 0, NoDevice, 0, FALSE, FALSE)
    /\ sent' = <<>>
    /\ UNCHANGED << status, device, receivedMessages, errorMessage,
                    parsedData, isFetchingData, txCharacteristicRef,
                    rxCharacteristicRef, bluetooth, pending, nInputs >>

\* The effects of the render on screen run: the cleanup of the effect set
\* up before, if the device changed, and the effect of the device shown.
PassiveEffects ==
    /\ effectDevice # screen.device
    /\ EffectCleanup(PendingCleanup, handlers, gattConnected, listeners)
    /\ effectDevice' = screen.device
    /\ last' = Event("effects", 0, effectDevice, 0, FALSE, FALSE)
    /\ sent' = <<>>
    /\ UNCHANGED << status, device, receivedMessages, errorMessage,
                    parsedData, isFetchingData, txCharacteristicRef,
                    rxCharacteristicRef, screen, bluetooth, pending,
                    nInputs >>

\* The render of a click, which ends the click: the effects of the render
\* before run if they have not yet, the screen shows the state the click
\* leaves, and the effects of this render run.  hs, gatt and lis are the
\* handleScanAndConnect calls, the connections and the listeners as the
\* click's handler leaves them.
ClickRendered(hs, gatt, lis) ==
    /\ screen' = Rendered(status', isFetchingData', device')
    /\ effectDevice' = device'
    /\ EffectCleanup(PendingCleanup
                       \cup (IF screen.device # device'
                             THEN {screen.device} \ {NoDevice}
                             ELSE {}),
                     hs, gatt, lis)

\* the first handleScanAndConnect call that is not under way
FreeHandler ==
    CHOOSE h \in HandlerIds :
      handlers[h] = Idle /\ \A g \in HandlerIds : handlers[g] = Idle => h <= g

\* A click on the Scan button of the scan screen or on the Try Again
\* button of the error screen: handleScanAndConnect up to the await of
\* requestDevice
ScanStart ==
    /\ screen.status \in {DISCONNECTED, ERROR}
    /\ Inputs < MaxInputs
    /\ IF ~bluetooth
       THEN /\ errorMessage' = NoBluetoothMessage
            /\ status' = ERROR
            /\ UNCHANGED nInputs
       ELSE /\ status' = SCANNING
            /\ errorMessage' = NULL
            /\ nInputs' = nInputs + 1
    /\ last' = Event("scan", 0, NoDevice, 0, FALSE, FALSE)
    /\ sent' = <<>>
    /\ UNCHANGED << device, receivedMessages, parsedData, isFetchingData,
                    txCharacteristicRef, rxCharacteristicRef, bluetooth,
                    pending >>
    /\ ClickRendered(IF ~bluetooth THEN handlers
                     ELSE [handlers EXCEPT ![FreeHandler] =
                              [pc |-> "scanning", dev |-> NoDevice]],
                     gattConnected, listeners)

\* the catch block of handleScanAndConnect, in the call h that holds the
\* device d
Catch(h, d, error) ==
    /\ errorMessage' = CatchMessage(error)
    /\ resetState
    /\ handlers' = [handlers EXCEPT ![h] = Idle]
    /\ last' = Event("connectFailed", 0, d, 0, FALSE, FALSE)
    /\ sent' = <<>>
    /\ UNCHANGED << screen, effectDevice, bluetooth, pending, gattConnected,
                    listeners, nInputs >>

\* the catch block after one of the awaits
ConnectCatch(h, error) ==
    /\ Catch(h, handlers[h].dev, error)
    /\ UNCHANGED discListener

\* requestDevice rejects, or the chosen device's name does not match
ScanRejected ==
    \E h \in HandlerIds :
      /\ handlers[h].pc = "scanning"
      /\ \E error \in ScanErrors : ConnectCatch(h, error)

\* requestDevice resolves with a device whose name matches: setDevice
\* and addEventListener, up to the await of gatt.connect().  Where
\* selectedDevice.gatt is undefined the await is one of undefined, and the
\* throw of line 187 and the catch block follow with no event in between.
DeviceSelected ==
    \E h \in HandlerIds, d \in Devices :
      /\ handlers[h].pc = "scanning"
      /\ discListener' = discListener \cup {d}
      /\ IF HasGatt(d)
         THEN /\ status' = CONNECTING
              /\ device' = d
              /\ handlers' = [handlers EXCEPT ![h] =
                                 [pc |-> "connecting", dev |-> d]]
              /\ last' = Event("selected", 0, d, 0, FALSE, FALSE)
              /\ sent' = <<>>
              /\ UNCHANGED << receivedMessages, errorMessage, parsedData,
                              isFetchingData, txCharacteristicRef,
                              rxCharacteristicRef, screen, effectDevice,
                              bluetooth, pending, gattConnected, listeners,
                              nInputs >>
         ELSE Catch(h, d, NoGattError)

\* gatt.connect() resolves
GattConnected ==
    \E h \in HandlerIds :
      /\ handlers[h].pc = "connecting"
      /\ HasGatt(handlers[h].dev)
      /\ gattConnected' = gattConnected \cup {handlers[h].dev}
      /\ handlers' = [handlers EXCEPT ![h].pc = "discovering"]
      /\ last' = Event("gattConnected", 0, handlers[h].dev, 0, FALSE, FALSE)
      /\ sent' = <<>>
      /\ UNCHANGED << status, device, receivedMessages, errorMessage,
                      parsedData, isFetchingData, txCharacteristicRef,
                      rxCharacteristicRef, screen, effectDevice, bluetooth,
                      pending, discListener, listeners, nInputs >>

\* getPrimaryService and both getCharacteristic resolve, and the
\* references are set
CharacteristicsFound ==
    \E h \in HandlerIds :
      LET d == handlers[h].dev IN
      /\ handlers[h].pc = "discovering"
      /\ txCharacteristicRef' = d
      /\ rxCharacteristicRef' = d
      /\ handlers' = [handlers EXCEPT ![h].pc = "starting"]
      /\ last' = Event("characteristics", 0, d, 0, FALSE, FALSE)
      /\ sent' = <<>>
      /\ UNCHANGED << status, device, receivedMessages, errorMessage,
                      parsedData, isFetchingData, screen, effectDevice,
                      bluetooth, pending, gattConnected, discListener,
                      listeners, nInputs >>

\* startNotifications resolves.  The GATT objects of a live connection are
\* the same objects on every lookup, and handleNotifications is a new
\* closure on every render, so a connect over a live connection adds one
\* more listener.
ConnectOk ==
    \E h \in HandlerIds :
      LET d == handlers[h].dev IN
      /\ handlers[h].pc = "starting"
      /\ listeners' = [listeners EXCEPT ![d] = @ + 1]
      /\ status' = CONNECTED
      /\ handlers' = [handlers EXCEPT ![h] = Idle]
      /\ last' = Event("connected", 0, d, 0, FALSE, FALSE)
      /\ sent' = <<>>
      /\ UNCHANGED << device, receivedMessages, errorMessage, parsedData,
                      isFetchingData, txCharacteristicRef,
                      rxCharacteristicRef, screen, effectDevice, bluetooth,
                      pending, gattConnected, discListener, nInputs >>

\* one of the awaited GATT calls rejects, as the one under way does once
\* the connection went away
ConnectFailed ==
    \E h \in HandlerIds :
      \/ /\ handlers[h].pc \in {"connecting", "discovering", "starting"}
         /\ HasGatt(handlers[h].dev)
         /\ \E error \in ConnectErrors : ConnectCatch(h, error)
      \/ /\ handlers[h].pc = "broken"
         /\ \E error \in DisconnectedErrors : ConnectCatch(h, error)

\* gattserverdisconnected fires on d: onDisconnected runs if it is
\* registered there.
DisconnectedEvent(d) ==
    IF d \in discListener
    THEN resetState
    ELSE UNCHANGED << status, device, receivedMessages, parsedData,
                      isFetchingData, txCharacteristicRef,
                      rxCharacteristicRef >>

\* the listeners once the GATT connection of d has ended
Unlinked(d) == [listeners EXCEPT ![d] = 0]

\* The GATT connection of d ends and gattserverdisconnected fires on d.
LinkDown(d) ==
    /\ gattConnected' = gattConnected \ {d}
    /\ listeners' = Unlinked(d)
    /\ DisconnectedEvent(d)

\* the link is lost
TransportDisconnect ==
    \E d \in gattConnected :
      /\ LinkDown(d)
      /\ handlers' = Broken(d, InFlight \ {"connecting"})
      /\ last' = Event("disconnected", 0, d, 0, FALSE, FALSE)
      /\ sent' = <<>>
      /\ UNCHANGED << errorMessage, screen, effectDevice, bluetooth, pending,
                      discListener, nInputs >>

\* A click on the Disconnect button of the control panel on screen:
\* handleDisconnect in the closure of the render that put it there
handleDisconnect ==
    /\ screen.status = CONNECTED
    /\ last' = Event("userDisconnect", 0, screen.device, 0, FALSE, FALSE)
    /\ sent' = <<>>
    /\ UNCHANGED << errorMessage, bluetooth, pending, nInputs >>
    /\ IF screen.device # NoDevice /\ screen.device \in gattConnected
       THEN \* device.gatt.disconnect(), then the event as above
            /\ DisconnectedEvent(screen.device)
            /\ ClickRendered(Broken(screen.device, InFlight),
                             gattConnected \ {screen.device},
                             Unlinked(screen.device))
       ELSE /\ resetState
            /\ ClickRendered(handlers, gattConnected, listeners)

\* A click on the "Get Saved Data" button of the control panel on screen,
\* which is disabled if the render read isFetchingData true: the handler
\* up to the await of the write.
FetchClick ==
    /\ screen.status = CONNECTED
    /\ UNCHANGED << device, txCharacteristicRef, rxCharacteristicRef,
                    bluetooth, nInputs >>
    /\ IF FetchButtonEnabled(screen.isFetchingData)
       THEN LET s0 == handleFetchSavedData(App,
                                           txCharacteristicRef # NoDevice)
            IN  /\ Commit(s0)
                /\ pending' = AwaitCommands(s0)
                /\ last' = Event("fetch", 0, txCharacteristicRef, 1,
                                 FALSE, FALSE)
                /\ ClickRendered(handlers, gattConnected, listeners)
       ELSE /\ sent' = <<>>
            /\ last' = Event("fetch", 0, txCharacteristicRef, 0,
                             FALSE, FALSE)
            /\ UNCHANGED << status, errorMessage, receivedMessages,
                            parsedData, isFetchingData, pending, handlers,
                            screen, effectDevice, gattConnected,
                            discListener, listeners >>

\* The messages typed in the control panel (its form submits none that is
\* blank), as code points
Texts == { <<72, 233>> }

\* new TextEncoder().encode(message)
Utf8Bytes(cp) ==
    IF cp < 128 THEN <<cp>>
    ELSE IF cp < 2048 THEN <<192 + (cp \div 64), 128 + (cp % 64)>>
    ELSE IF cp < 65536
    THEN <<224 + (cp \div 4096), 128 + ((cp \div 64) % 64),
           128 + (cp % 64)>>
    ELSE <<240 + (cp \div 262144), 128 + ((cp \div 4096) % 64),
           128 + ((cp \div 64) % 64), 128 + (cp % 64)>>
RECURSIVE TextEncode(_)
TextEncode(text) ==
    IF text = <<>> THEN <<>>
    ELSE Utf8Bytes(Head(text)) \o TextEncode(Tail(text))

\* The form of the control panel on screen submits a message:
\* handleSendText up to the await of writeValue.  The form empties its
\* input, and the render of that shows the state of the App as well.
handleSendText ==
    /\ screen.status = CONNECTED
    /\ Inputs < MaxInputs
    /\ \E message \in Texts :
         IF txCharacteristicRef = NoDevice
         THEN /\ sent' = <<>>
              /\ UNCHANGED pending
         ELSE /\ sent' = << TextEncode(message) >>
              /\ pending' = Append(pending, [kind |-> "text",
                                             data |-> message])
    /\ last' = Event("text", 0, txCharacteristicRef, 0, FALSE, FALSE)
    /\ nInputs' = nInputs + 1
    /\ UNCHANGED << status, device, receivedMessages, errorMessage,
                    parsedData, isFetchingData, txCharacteristicRef,
                    rxCharacteristicRef, bluetooth >>
    /\ ClickRendered(handlers, gattConnected, listeners)

\* A device notifies a frame f of ids on its RX characteristic: every
\* listener runs up to the await of the write it makes, if any.
NotifyFrom(ids) ==
    /\ Inputs < MaxInputs
    /\ \E d \in gattConnected, f \in ids :
         LET s0 == Dispatch(App, FrameData[f],
                            txCharacteristicRef # NoDevice, listeners[d])
         IN  /\ listeners[d] > 0
             /\ Commit(s0)
             /\ pending' = AwaitCommands(s0)
             /\ last' = Event("notify", f, d, listeners[d], s0.threw, FALSE)
    /\ nInputs' = nInputs + 1
    /\ UNCHANGED << device, txCharacteristicRef, rxCharacteristicRef,
                    handlers, screen, effectDevice, bluetooth, gattConnected,
                    discListener, listeners >>

\* The platform settles a write of handleSendCommand, and the handler
\* goes on after its await: the write resolved (ok) or was rejected.
CommandWriteSettled ==
    \E k \in DOMAIN pending, ok \in BOOLEAN :
      /\ pending[k].kind = "command"
      /\ Commit(SendCommandSettled(App, pending[k].data, ok))
      /\ pending' = Remove(pending, k)
      /\ last' = Event("commandSettled", 0, NoDevice, 0, FALSE, ok)
      /\ UNCHANGED << device, txCharacteristicRef, rxCharacteristicRef,
                      handlers, screen, effectDevice, bluetooth, gattConnected,
                      discListener, listeners, nInputs >>

\* The platform settles a write of handleSendText.
TextWriteSettled ==
    \E k \in DOMAIN pending, ok \in BOOLEAN :
      /\ pending[k].kind = "text"
      /\ Commit(SendTextSettled(App, pending[k].data, ok))
      /\ pending' = Remove(pending, k)
      /\ last' = Event("textSettled", 0, NoDevice, 0, FALSE, ok)
      /\ UNCHANGED << device, txCharacteristicRef, rxCharacteristicRef,
                      handlers, screen, effectDevice, bluetooth, gattConnected,
                      discListener, listeners, nInputs >>

Notify == NotifyFrom(SessionFrameIds)

Next ==
    \/ ScanStart
    \/ ScanRejected
    \/ DeviceSelected
    \/ GattConnected
    \/ CharacteristicsFound
    \/ ConnectOk
    \/ ConnectFailed
    \/ Render
    \/ PassiveEffects
    \/ TransportDisconnect
    \/ handleDisconnect
    \/ FetchClick
    \/ handleSendText
    \/ Notify
    \/ CommandWriteSettled
    \/ TextWriteSettled

Spec == Init /\ [][Next]_vars

\* The page model: the first connection, made, rendered and staying up, the
\* session frames first and, as the last frame, every frame of Frames.
PageInit ==
    /\ status = CONNECTED
    /\ device = 1
    /\ receivedMessages = <<>>
    /\ errorMessage = NULL
    /\ parsedData = <<>>
    /\ isFetchingData = FALSE
    /\ txCharacteristicRef = 1
    /\ rxCharacteristicRef = 1
    /\ handlers = [h \in HandlerIds |-> Idle]
    /\ screen = [status |-> CONNECTED, isFetchingData |-> FALSE,
                 device |-> 1]
    /\ effectDevice = 1
    /\ bluetooth = TRUE
    /\ gattConnected = {1}
    /\ discListener = {1}
    /\ listeners = [d \in Devices |-> IF d = 1 THEN 1 ELSE 0]
    /\ pending = <<>>
    /\ sent = <<>>
    /\ last = [op |-> "render", f |-> 0, dev |-> NoDevice, n |-> 0,
               wasFetching |-> FALSE, had |-> 0,
               threw |-> FALSE, writeOk |-> FALSE]
    /\ nInputs = 1

NotifyEarlier ==
    /\ Inputs < MaxInputs - 1
    /\ NotifyFrom(SessionFrameIds)

NotifyLast ==
    /\ Inputs = MaxInputs - 1
    /\ NotifyFrom(FrameIds)

PageNext ==
    \/ FetchClick
    \/ NotifyEarlier
    \/ NotifyLast
    \/ CommandWriteSettled
    \/ Render

PageSpec == PageInit /\ [][PageNext]_vars

\* The state the page model starts in is a state of the session model.
PageInitReached ==
    /\ status = CONNECTED /\ device = 1 /\ receivedMessages = <<>>
    /\ errorMessage = NULL /\ parsedData = <<>> /\ ~isFetchingData
    /\ txCharacteristicRef = 1 /\ rxCharacteristicRef = 1
    /\ handlers = [h \in HandlerIds |-> Idle]
    /\ screen = Rendered(CONNECTED, FALSE, 1) /\ effectDevice = 1
    /\ bluetooth /\ gattConnected = {1} /\ discListener = {1}
    /\ listeners[1] = 1 /\ sent = <<>>
    /\ pending = <<>>
    /\ last.op = "render" /\ nInputs = 1

TypeOK ==
    /\ status \in {DISCONNECTED, SCANNING, CONNECTING, CONNECTED, ERROR}
    /\ device \in Devices \cup {NoDevice}
    /\ screen.status \in {DISCONNECTED, SCANNING, CONNECTING, CONNECTED, ERROR}
    /\ screen.isFetchingData \in BOOLEAN
    /\ screen.device \in Devices \cup {NoDevice}
    /\ effectDevice \in Devices \cup {NoDevice}
    /\ nInputs \in 0..MaxInputs
    /\ isFetchingData => screen.isFetchingData
    /\ txCharacteristicRef \in Devices \cup {NoDevice}
    /\ rxCharacteristicRef = txCharacteristicRef
    /\ isFetchingData \in BOOLEAN
    /\ gattConnected \subseteq {d \in Devices : HasGatt(d)}
    /\ discListener \subseteq Devices
    /\ \A d \in Devices :
         /\ listeners[d] \in 0..MaxInputs
         /\ listeners[d] > 0 => d \in gattConnected
    /\ Len(pending) <= MaxInputs * MaxInputs
    /\ \A k \in DOMAIN pending :
         \/ /\ pending[k].kind = "command"
            /\ pending[k].data \in {SAVE_DAT_REQ, SAVE_DAT_NEXT_REQ}
         \/ /\ pending[k].kind = "text"
            /\ pending[k].data \in Texts
    /\ \A h \in HandlerIds :
         /\ handlers[h].pc \in {"idle", "scanning", "broken"} \cup InFlight
         /\ handlers[h].pc \in {"discovering", "starting"}
               => handlers[h].dev \in gattConnected

\* ------------------------------------------------------------------------
\* What a frame is, read off its descriptor (not off the decoder)
\* ------------------------------------------------------------------------
Desc(f) == Frames[f]
LastDesc == Desc(last.f)
Notified == last.op = "notify"

HasPageHeader(d) ==
    \/ d.raw = <<>>
    \/ Len(d.raw) >= 2 /\ d.raw[1] = SOM /\ d.raw[2] = SAVE_DAT_REP
NumSlots(d) == d.len \div RECORD_SIZE
\* the payload bytes the frame holds
Present(d) == IF d.raw = <<>> THEN d.slots * RECORD_SIZE + d.pad
              ELSE Len(d.raw) - 4
\* the declared payload length exceeds the bytes present (a frame of 2 or
\* 3 bytes has no complete length field at all)
Malformed(d) ==
    /\ HasPageHeader(d)
    /\ \/ d.raw # <<>>
       \/ d.len > Present(d)
WellFormed(d) == d.raw = <<>> /\ d.len <= Present(d)
HasSentinel(d) ==
    d.raw = <<>> /\ d.zeroAt >= 0 /\ d.zeroAt < NumSlots(d) /\ d.zeroAt < d.slots
TerminalPage(d) ==
    WellFormed(d) /\ (d.len = 0 \/ HasSentinel(d) \/ NumSlots(d) < FULL_PAGE)
FullPage(d) ==
    WellFormed(d) /\ NumSlots(d) >= FULL_PAGE /\ ~HasSentinel(d)

ExpectedCount(d) == IF HasSentinel(d) THEN d.zeroAt ELSE NumSlots(d)
ExpectedRecords(d) ==
    [i \in 1..ExpectedCount(d) |-> ExpectedRecord(d.tag, i - 1)]

IsPrefix(a, b) == Len(a) <= Len(b) /\ SubSeq(b, 1, Len(a)) = a
\* the event handled last is a write of handleSendCommand rejected
WriteRejected == last.op = "commandSettled" /\ ~last.writeOk

\* ------------------------------------------------------------------------
\* C1: a "start fetch" request made while a fetch is in progress does
\* nothing: no command is sent, the records stay as they are and the fetch
\* stays in progress.
\* ------------------------------------------------------------------------
C1_AtMostOneFetch ==
    [][ (last'.op = "fetch" /\ isFetchingData)
          => (sent' = <<>> /\ parsedData' = parsedData /\ isFetchingData') ]_vars

C1_Witness ==
    last.op = "fetch" /\ last.wasFetching /\ last.had >= FULL_PAGE
    /\ Len(parsedData) = last.had

\* ------------------------------------------------------------------------
\* C2: a disconnection during a fetch ends the fetch, keeps every record
\* accumulated before it and emits no command.
\* ------------------------------------------------------------------------
C2_DisconnectKeepsRecords ==
    [][ (last'.op = "disconnected" /\ isFetchingData)
          => (~isFetchingData' /\ parsedData' = parsedData /\ sent' = <<>>) ]_vars

\* What the code does: when onDisconnected runs during a fetch, the fetch
\* ends, the state is reset (status DISCONNECTED, the records and the log
\* emptied) and no command is emitted.
Disconnect_ResetsSession ==
    [][ (last'.op = "disconnected" /\ isFetchingData
           /\ last'.dev \in discListener)
          => /\ ~isFetchingData'
             /\ parsedData' = <<>>
             /\ receivedMessages' = <<>>
             /\ status' = DISCONNECTED
             /\ sent' = <<>> ]_vars

\* a disconnection during a fetch that had a full page of records
Disconnect_RecordsLost ==
    /\ last.op = "disconnected" /\ last.wasFetching /\ last.had >= FULL_PAGE
    /\ parsedData = <<>> /\ ~isFetchingData

\* ------------------------------------------------------------------------
\* C3: when the transport rejects the write of a start-fetch or next-page
\* command, the fetch is no longer in progress, the records are kept and
\* the control panel is there for a new "start fetch".
\* ------------------------------------------------------------------------
C3_SendFailureAbortsFetch ==
    WriteRejected
        => /\ ~isFetchingData
           /\ Len(parsedData) >= last.had
           /\ status = CONNECTED

\* ------------------------------------------------------------------------
\* C4: a data page that declares more payload than the frame holds is a
\* decode fault: nothing is appended, the fetch is no longer in progress,
\* and no exception leaves the frame handler.
\* ------------------------------------------------------------------------
C4_MalformedFrameFailsFetch ==
    (Notified /\ last.wasFetching /\ Malformed(LastDesc))
        => /\ ~last.threw
           /\ ~isFetchingData
           /\ Len(parsedData) = last.had

\* ------------------------------------------------------------------------
\* C5: a data page that arrives while no fetch is in progress appends no
\* record and causes no next-page command.
\* ------------------------------------------------------------------------
C5_PageIgnoredWhenIdle ==
    (Notified /\ ~last.wasFetching /\ HasPageHeader(LastDesc))
        => (Len(parsedData) = last.had /\ sent = <<>>)

\* ------------------------------------------------------------------------
\* C6: a fetch that receives a well-formed terminal page (empty, with a
\* sentinel, or short) is no longer in progress after it, and only a
\* "start fetch" puts the session in progress, so that no fetch attempt
\* leaves the in-progress state twice.
\* ------------------------------------------------------------------------
C6_LeavesInProgressOnce ==
    /\ []( (Notified /\ last.wasFetching /\ TerminalPage(LastDesc))
              => ~isFetchingData )
    /\ [][ (~isFetchingData /\ isFetchingData')
              => /\ last'.op = "fetch"
                 /\ txCharacteristicRef # NoDevice
                       => sent' = <<SAVE_DAT_REQ>> ]_vars

C6_Witness ==
    /\ Notified /\ last.wasFetching /\ TerminalPage(LastDesc)
    /\ NumSlots(LastDesc) > 0 /\ ~HasSentinel(LastDesc)
    /\ ~isFetchingData

\* ------------------------------------------------------------------------
\* C7: a page of 50 or more slots without a sentinel that arrives during a
\* fetch has all its records appended, leaves the fetch in progress and is
\* answered by exactly one next-page command AE 5B 00 00.
\* ------------------------------------------------------------------------
C7_FullPageAsksNextOnce ==
    (Notified /\ last.wasFetching /\ FullPage(LastDesc))
        => /\ Len(parsedData) = last.had + NumSlots(LastDesc)
           /\ isFetchingData
           /\ sent = <<SAVE_DAT_NEXT_REQ>>

\* With a single listener registered and the TX characteristic held the
\* statement of C7 holds; it fails once a retry has registered a second
\* listener, and when the page meets a session left in progress without
\* the TX characteristic (the case of C14).
OneListener_FullPageAsksNextOnce ==
    (last.n = 1 /\ txCharacteristicRef # NoDevice)
        => C7_FullPageAsksNextOnce

\* ------------------------------------------------------------------------
\* C8: the records only grow at the end, except across a "start fetch".
\* ------------------------------------------------------------------------
C8_ShrinkOnlyOnFetch ==
    [][ IsPrefix(parsedData, parsedData') \/ last'.op = "fetch" ]_vars

\* What the code does: the records only grow at the end, except across a
\* "start fetch" and across resetState (a disconnection, the Disconnect
\* button, a failed connect), which empties them.
Records_ShrinkOnFetchOrReset ==
    [][ \/ IsPrefix(parsedData, parsedData')
        \/ last'.op = "fetch"
        \/ /\ last'.op \in {"disconnected", "userDisconnect", "connectFailed"}
           /\ parsedData' = <<>>
           /\ status' = DISCONNECTED ]_vars

\* ------------------------------------------------------------------------
\* C9: during a fetch every well-formed page extends the records by exactly
\* the records of that page, in order, so that after N pages the records
\* are the concatenation of the pages' records.
\* ------------------------------------------------------------------------
C9_PagesConcatenate ==
    [][ (last'.op = "notify" /\ isFetchingData /\ WellFormed(Desc(last'.f)))
          => parsedData' = parsedData \o ExpectedRecords(Desc(last'.f)) ]_vars

\* With a single listener registered the statement of C9 holds.
OneListener_PagesConcatenate ==
    [][ (last'.n = 1 /\ last'.op = "notify" /\ isFetchingData
           /\ WellFormed(Desc(last'.f)))
          => parsedData' = parsedData \o ExpectedRecords(Desc(last'.f)) ]_vars

\* ------------------------------------------------------------------------
\* C10: a slot of category 0 ends the page.  The page's records are the
\* slots before the first such slot and nothing after it, and the page ends
\* the transfer whatever its slot count: the fetch is no longer in progress
\* and no next-page command is sent.
\* ------------------------------------------------------------------------
C10_SentinelEndsPage ==
    (Notified /\ HasSentinel(LastDesc))
        => LET bytes == FrameData[last.f]
               numRecords == GetUint16(bytes, 2) \div RECORD_SIZE
               d == DecodeLoop(bytes, numRecords)
           IN  /\ ~d.threw /\ ~last.threw
               /\ d.isLastPacket
               /\ d.records = ExpectedRecords(LastDesc)
               /\ Len(d.records) = LastDesc.zeroAt
               /\ IsEndOfTransfer(d.isLastPacket, numRecords)
               /\ Len(parsedData) >= last.had + LastDesc.zeroAt
               /\ SubSeq(parsedData, Len(parsedData) - LastDesc.zeroAt + 1,
                         Len(parsedData)) = ExpectedRecords(LastDesc)
               /\ ~isFetchingData
               /\ sent = <<>>

C10_Witness ==
    /\ Notified /\ HasSentinel(LastDesc) /\ last.wasFetching
    /\ NumSlots(LastDesc) > FULL_PAGE /\ LastDesc.zeroAt = FULL_PAGE
    /\ Len(parsedData) = last.had + FULL_PAGE /\ ~isFetchingData

\* ------------------------------------------------------------------------
\* C11: a page that declares a payload of 1 byte or more, holds fewer than
\* 50 slots and has no sentinel has every slot decoded and appended, in
\* order, and ends the fetch: the session is no longer in progress and no
\* next-page command is sent.
\* ------------------------------------------------------------------------
ShortPage(d) ==
    WellFormed(d) /\ d.len > 0 /\ NumSlots(d) < FULL_PAGE /\ ~HasSentinel(d)

C11_ShortPageEndsFetch ==
    (Notified /\ ShortPage(LastDesc))
        => LET bytes == FrameData[last.f]
               numRecords == GetUint16(bytes, 2) \div RECORD_SIZE
               d == DecodeLoop(bytes, numRecords)
               n == NumSlots(LastDesc)
           IN  /\ ~d.threw /\ ~last.threw
               /\ ~d.isLastPacket
               /\ numRecords = n
               /\ d.records = ExpectedRecords(LastDesc)
               /\ Len(d.records) = n
               /\ Len(parsedData) >= last.had + n
               /\ SubSeq(parsedData, Len(parsedData) - n + 1,
                         Len(parsedData)) = ExpectedRecords(LastDesc)
               /\ ~isFetchingData
               /\ sent = <<>>

C11_Witness ==
    /\ Notified /\ ShortPage(LastDesc) /\ last.wasFetching
    /\ NumSlots(LastDesc) = FULL_PAGE - 1
    /\ last.had >= FULL_PAGE
    /\ Len(parsedData) = last.had + FULL_PAGE - 1 /\ ~isFetchingData

\* ------------------------------------------------------------------------
\* C12: a data page that declares a payload length of 0 appends no record,
\* ends the fetch and causes no next-page command, whatever bytes follow
\* its header.
\* ------------------------------------------------------------------------
ZeroLengthPage(d) == d.raw = <<>> /\ d.len = 0

C12_EmptyPageEndsFetch ==
    (Notified /\ ZeroLengthPage(LastDesc))
        => /\ ~last.threw
           /\ Len(parsedData) = last.had
           /\ ~isFetchingData
           /\ sent = <<>>

C12_Witness ==
    /\ Notified /\ ZeroLengthPage(LastDesc) /\ last.wasFetching
    /\ LastDesc.slots > 0
    /\ last.had >= FULL_PAGE /\ Len(parsedData) = last.had
    /\ ~isFetchingData

\* ------------------------------------------------------------------------
\* C13: a "start fetch" made while no fetch is in progress empties the
\* records (those of an earlier fetch are discarded), puts the session in
\* progress and hands the transport exactly one command, AE 5A 00 00.
\* ------------------------------------------------------------------------
C13_StartFetch ==
    (last.op = "fetch" /\ ~last.wasFetching)
        => /\ parsedData = <<>>
           /\ isFetchingData
           /\ sent = << <<174, 90, 0, 0>> >>

\* What the code does: the handler of an enabled button empties the
\* records and sets the flag whatever the TX reference is, and hands over
\* the one command only if the reference is held.
StartFetch_CommandOnlyWithTransport ==
    (last.op = "fetch" /\ last.n = 1)
        => /\ parsedData = <<>>
           /\ isFetchingData
           /\ sent = IF txCharacteristicRef # NoDevice
                     THEN <<SAVE_DAT_REQ>> ELSE <<>>

\* a start fetch with no fetch in progress and the TX reference null
StartFetch_WithoutTransport ==
    /\ last.op = "fetch" /\ last.n = 1 /\ ~last.wasFetching
    /\ txCharacteristicRef = NoDevice
    /\ isFetchingData /\ sent = <<>>

\* ------------------------------------------------------------------------
\* C14: a "start fetch" made while the TX characteristic is missing is
\* reported as an error and starts no fetch: the session is not in progress
\* afterwards and no command is sent.
\* ------------------------------------------------------------------------
C14_NoTransportNoFetch ==
    (last.op = "fetch" /\ ~last.wasFetching
       /\ txCharacteristicRef = NoDevice)
        => /\ status = ERROR
           /\ errorMessage = "TX characteristic not available."
           /\ sent = <<>>
           /\ ~isFetchingData

\* What the code does in that case: the error is reported and nothing is
\* sent, but the records are emptied and the session is left in progress.
NoTransport_LeftInProgress ==
    (last.op = "fetch" /\ last.n = 1
       /\ txCharacteristicRef = NoDevice)
        => /\ status = ERROR
           /\ errorMessage = "TX characteristic not available."
           /\ sent = <<>>
           /\ isFetchingData
           /\ parsedData = <<>>

\* ------------------------------------------------------------------------
\* C15: a frame that is not a data page never changes the fetch session.
\* One shorter than 2 bytes changes nothing at all; one of 2 bytes or more
\* that does not start with AE DA adds exactly one entry to the log and
\* leaves the records and the in-progress flag as they are, and no command
\* is sent.
\* ------------------------------------------------------------------------
OtherFrameEffect ==
    (last'.op = "notify" /\ ~HasPageHeader(Desc(last'.f)))
        => /\ parsedData' = parsedData
           /\ isFetchingData' = isFetchingData
           /\ status' = status
           /\ sent' = <<>>
           /\ ~last'.threw
           /\ IF Len(Desc(last'.f).raw) < 2
              THEN receivedMessages' = receivedMessages
              ELSE /\ Len(receivedMessages') = Len(receivedMessages) + 1
                   /\ IsPrefix(receivedMessages, receivedMessages')
                   /\ receivedMessages'[Len(receivedMessages')][1] = "[IN]"

C15_OtherFramesLeaveSession == [][OtherFrameEffect]_vars

\* With a single listener registered the statement of C15 holds.
OneListener_OtherFramesLeaveSession ==
    [][last'.n = 1 => OtherFrameEffect]_vars

\* ------------------------------------------------------------------------
\* C16: decoding a data page that declares a payload length L calls no
\* getter on a byte at index 4 + floor(L/43)*43 or beyond: the last byte a
\* slot's decode touches is the last byte of that slot.
\* ------------------------------------------------------------------------
ReadLimit(d) == 4 + (d.len \div 43) * 43

C16_ReadsWithinSlots ==
    (Notified /\ LastDesc.raw = <<>>)
        => \A k \in PageReads(FrameData[last.f]) : k < ReadLimit(LastDesc)

C16_Witness ==
    /\ Notified /\ LastDesc.raw = <<>> /\ ~last.threw
    /\ LastDesc.len % 43 # 0 /\ NumSlots(LastDesc) > 0
    /\ Len(FrameData[last.f]) > ReadLimit(LastDesc)
    /\ (ReadLimit(LastDesc) - 1) \in PageReads(FrameData[last.f])
    /\ Len(parsedData) = last.had + NumSlots(LastDesc)

\* ------------------------------------------------------------------------
\* C17: a synthetic record laid out in a 43-byte slot decodes to the field
\* values it was built from: category from byte 0, year = byte 1 + 2000,
\* month .. second from bytes 2-6, temperature from the f32 at 7, treeNo
\* from the u16 at 15, defectCode from the u16 at 21 and the five results
\* from the f32s at 23, 27, 31, 35, 39, in that order.
\* ------------------------------------------------------------------------
RecordSlots(d) ==
    {i \in 0..(d.slots - 1) : i # d.zeroAt}

C17_RoundTrip ==
    (Notified /\ LastDesc.raw = <<>>)
        => \A i \in RecordSlots(LastDesc) :
             LET bytes == FrameData[last.f]
                 offset == 4 + i * 43
                 r == ExpectedRecord(LastDesc.tag, i)
                 got == DecodeSlot(bytes, offset)
             IN  /\ SubSeq(bytes, offset + 1, offset + 43) = EncodeSlot(r)
                 /\ got = r
                 /\ got.fruitIndex = bytes[offset + 1]
                 /\ got.timestamp[1] = bytes[offset + 2] + 2000
                 /\ \A k \in 2..6 : got.timestamp[k] = bytes[offset + 1 + k]
                 /\ got.treeNo = SlotTreeNo(LastDesc.tag, i)
                 /\ got.defectCode = SlotDefect(LastDesc.tag, i)
                 /\ got.temperature = SlotTemperature(LastDesc.tag, i)
                 /\ \A j \in 1..5 :
                       got.calcResult[j] = SlotResult(LastDesc.tag, i, j)

C17_Witness ==
    /\ Notified /\ LastDesc.raw = <<>> /\ ~last.threw
    /\ LastDesc.slots = FULL_PAGE /\ LastDesc.zeroAt = -1
    /\ Len(parsedData) = last.had + FULL_PAGE
    /\ parsedData[Len(parsedData)] = ExpectedRecord(LastDesc.tag, FULL_PAGE - 1)
    /\ parsedData[Len(parsedData)].treeNo > 255
    /\ parsedData[last.had + 1].defectCode > 65000

\* ------------------------------------------------------------------------
\* C18: every record of the session has a category other than 0, and one
\* data page that declares a payload length L adds at most floor(L/43)
\* records.
\* ------------------------------------------------------------------------
CategoriesNonzero ==
    \A k \in 1..Len(parsedData) : parsedData[k].fruitIndex # 0

PageAddsAtMostItsSlots ==
    (Notified /\ LastDesc.raw = <<>>)
        => Len(parsedData) <= last.had + (LastDesc.len \div 43)

C18_RecordsValid == CategoriesNonzero /\ PageAddsAtMostItsSlots

\* With a single listener registered the statement of C18 holds.
OneListener_RecordsValid ==
    CategoriesNonzero /\ (last.n = 1 => PageAddsAtMostItsSlots)

\* ------------------------------------------------------------------------
\* C19: whenever a connection attempt succeeds and the status becomes
\* CONNECTED, no fetch is in progress, so that "start fetch" is available;
\* also when the connection before ended in ERROR through a failed send
\* during a fetch.
\* ------------------------------------------------------------------------
C19_ConnectedMeansIdle ==
    (last.op = "connected" /\ status = CONNECTED)
        => (~isFetchingData /\ FetchButtonEnabled(isFetchingData))

\* ------------------------------------------------------------------------
\* C20: every frame the transport delivers is handled once: at most one
\* handleNotifications is registered on the RX characteristic at any time,
\* also after an error and a retry that reconnects without a disconnection
\* in between, so that no page has its records appended twice.
\* ------------------------------------------------------------------------
C20_FrameHandledOnce ==
    /\ \A d \in Devices : listeners[d] <= 1
    /\ (Notified /\ WellFormed(LastDesc))
          => Len(parsedData) <= last.had + ExpectedCount(LastDesc)

\* ------------------------------------------------------------------------
\* C21: when a scan/connect attempt fails (the device is rejected, the GATT
\* connect or a service or characteristic lookup throws), the status ends
\* as ERROR with the error message set, so that the error screen with its
\* retry is what is shown.
\* ------------------------------------------------------------------------
C21_ConnectFailureShowsError ==
    (last.op = "connectFailed")
        => (status = ERROR /\ errorMessage # NULL)

\* What the code does: the catch block sets the message and ERROR and then
\* calls resetState, whose setStatus(DISCONNECTED) is the last one, so the
\* message is set and the scan screen, which does not show it, is rendered.
ConnectFailure_EndsDisconnected ==
    (last.op = "connectFailed")
        => /\ status = DISCONNECTED
           /\ errorMessage # NULL
           /\ device = NoDevice /\ txCharacteristicRef = NoDevice
           /\ parsedData = <<>>

====
